---------------------------- MODULE Spec2Model ----------------------------
(***************************************************************************)
(* Model of Tuckr's symlink handler (src/app/symlinkhandler.py).           *)
(*                                                                         *)
(* The filesystem is a map from absolute paths to entries.  A path is a    *)
(* sequence of components; an absolute path starts with the component "/". *)
(* Two directories are modelled: the current working directory (the        *)
(* dotfiles root) and the user's home directory (the destination root).    *)
(***************************************************************************)
EXTENDS Integers, Sequences, FiniteSets, TLC

(***************************************************************************)
(* Bounds                                                                  *)
(***************************************************************************)
\* number of distinct contents a regular file may initially have
MaxContent == 2

\* the two concurrent create_symlinks runs of the concurrency section
Procs == {1, 2}

\* entry names that may occur in the two directories
Names == {"tuckr.conf", "bashrc", "vimrc", "tuckr.conf.bak"}

(***************************************************************************)
(* Paths                                                                   *)
(***************************************************************************)
\* Path.cwd(): the process runs from the dotfiles root
Cwd == <<"/", "dotfiles">>

\* what "~" expands to
HomeDir == <<"/", "home">>

\* a symlink target outside both directories
Elsewhere == <<"/", "elsewhere">>

\* the marker the decorator looks for: f"{Path.cwd()}/tuckr.conf"
MarkerPath == Cwd \o <<"tuckr.conf">>

IsAbs(p) == Len(p) > 0 /\ p[1] = "/"

\* a relative path given to Path(...) is resolved against the cwd
Abs(p) == IF IsAbs(p) THEN p ELSE Cwd \o p

\* str(file).split("/")[-1]
Basename(p) == p[Len(p)]

\* Path(f"~/{file}").expanduser()
Expanduser(p) == IF Len(p) > 0 /\ p[1] = "~" THEN HomeDir \o Tail(p) ELSE p

\* "tuckr.conf" in str(file): a substring test, tabulated over Names
HasConfSubstring(name) == name \in {"tuckr.conf", "tuckr.conf.bak"}

AllPaths == {Cwd \o <<n>> : n \in Names} \cup {HomeDir \o <<n>> : n \in Names}

(***************************************************************************)
(* Filesystem entries                                                      *)
(***************************************************************************)
NoEntry == [kind |-> "none", target |-> <<>>, content |-> 0]

RegFile(c) == [kind |-> "file", target |-> <<>>, content |-> c]

Symlink(t) == [kind |-> "symlink", target |-> t, content |-> 0]

\* entries a dotfiles-root path may hold before the tool runs: the files kept
\* in the repository are regular files or symlinks; the backup of the
\* configuration file is a regular file
RootEntries(n) ==
    IF n = "tuckr.conf.bak"
    THEN {NoEntry, RegFile(1)}
    ELSE {NoEntry, RegFile(1), Symlink(Elsewhere)}

\* entries a destination path may hold before the tool runs: nothing, a
\* regular file, a symlink to something else, or a symlink whose target is
\* the absolute path of the tracked file; the destinations of the
\* configuration file and its backup hold nothing or a regular file
HomeEntries(n) ==
    IF HasConfSubstring(n)
    THEN {NoEntry, RegFile(1)}
    ELSE {NoEntry, Symlink(Elsewhere), Symlink(Cwd \o <<n>>)}
            \cup {RegFile(c) : c \in 1..MaxContent}

\* Path.iterdir(): the entries present directly under dir
Iterdir(f, dir) == {p \in AllPaths : /\ SubSeq(p, 1, Len(dir)) = dir
                                     /\ f[p].kind # "none"}

\* Path.is_symlink(): true for a symlink, dangling or not; never follows it
IsSymlink(f, p) == f[Abs(p)].kind = "symlink"

\* Path.unlink()
Unlink(f, p) == [f EXCEPT ![Abs(p)] = NoEntry]

\* a symlink_to that replaces whatever is at the path, as `ln -sf` does
SymlinkTo_Force(f, link, target) ==
    [fs |-> [f EXCEPT ![Abs(link)] = Symlink(target)], exc |-> "none"]

\* Path.symlink_to(target): os.symlink fails when anything is at the path
SymlinkTo(f, link, target) ==
    IF f[Abs(link)].kind # "none"
    THEN [fs |-> f, exc |-> "FileExistsError"]
    ELSE [fs |-> [f EXCEPT ![Abs(link)] = Symlink(target)], exc |-> "none"]

(***************************************************************************)
(* State                                                                   *)
(***************************************************************************)
VARIABLES
    fs,          \* the filesystem: [AllPaths -> entry]
    guardFiles,  \* `files` captured by in_dotfiles_dir at import time
    files,       \* SymlinkHandler.files, captured by __init__
    out,         \* messages printed by the last call
    exc,         \* exception the last call raised ("none" if it returned)
    lastOp,      \* the last handler method called
    lastArg,     \* its argument (<<>> if it takes none)
    prevOp,      \* the handler method called before that
    fsBefore,    \* the filesystem when the last call started
    fs0,         \* the filesystem before the first call
    created,     \* links the last call created
    prevCreated, \* links the call before it created
    pc,          \* concurrent runs: position of each process
    todo,        \* concurrent runs: files each process has still to visit
    pout,        \* concurrent runs: messages each process printed
    pmade        \* concurrent runs: links each process created

vars == <<fs, guardFiles, files, out, exc, lastOp, lastArg, prevOp, fsBefore,
          fs0, created, prevCreated, pc, todo, pout, pmade>>

seqVars == <<out, exc, lastOp, lastArg, prevOp, fsBefore, created, prevCreated>>

concVars == <<pc, todo, pout, pmade>>

Msg(m, p) == [msg |-> m, file |-> p]

\* the result of a call: new filesystem, printed messages, raised exception
Result(f, o, e, c) == [fs |-> f, out |-> o, exc |-> e, created |-> c]

(***************************************************************************)
(* The decorator in_dotfiles_dir                                           *)
(***************************************************************************)
\* check_cwd(a) accepts exactly one positional argument
CheckCwdArity == 1

\* the test f"{Path.cwd()}/tuckr.conf" in files, on the import-time listing
GuardPasses(gf) == MarkerPath \in gf

\* check_cwd called with nargs positional arguments (self included);
\* funcArity is the number of parameters of the wrapped method and body the
\* result of running it
CheckCwd(f, gf, nargs, funcArity, body) ==
    IF nargs # CheckCwdArity
    THEN Result(f, {}, "TypeError", {})
    ELSE IF GuardPasses(gf)
         THEN IF funcArity # 1
              THEN Result(f, {}, "TypeError", {})
              ELSE body
         ELSE Result(f, {Msg("Error: not a dotfile directory", <<>>)}, "none", {})

(***************************************************************************)
(* check_symlinks                                                          *)
(***************************************************************************)
CheckSymlinksBody(f, fl) ==
    Result(f, {Msg("Symlinked", p) : p \in {q \in fl : IsSymlink(f, q)}}
              \cup {Msg("Unsymlinked", p) : p \in {q \in fl : ~IsSymlink(f, q)}},
           "none", {})

(***************************************************************************)
(* create_symlinks                                                         *)
(***************************************************************************)
\* the loop iteration without its `except FileExistsError` clause
CreateOne_NoCatch(f, p) ==
    LET file == Basename(p)
        dest == Expanduser(<<"~", file>>)
    IN  IF HasConfSubstring(file)
        THEN Result(f, {}, "none", {})
        ELSE LET r == SymlinkTo(f, dest, <<file>>)
             IN  IF r.exc = "FileExistsError"
                 THEN Result(f, {}, r.exc, {})
                 ELSE Result(r.fs, {}, r.exc, {dest})

\* one iteration of the loop over self.files
CreateOne(f, p) ==
    LET file == Basename(p)
        dest == Expanduser(<<"~", file>>)
    IN  IF HasConfSubstring(file)
        THEN Result(f, {}, "none", {})
        ELSE LET r == SymlinkTo(f, dest, <<file>>)
             IN  IF r.exc = "FileExistsError"
                 THEN Result(f, {Msg("Skipping", <<file>>)}, "none", {})
                 ELSE Result(r.fs, {}, r.exc, {dest})

RECURSIVE CreateLoop(_, _)
CreateLoop(acc, rest) ==
    IF rest = {}
    THEN [acc EXCEPT !.out = @ \cup {Msg("done", <<>>)}]
    ELSE LET p == CHOOSE x \in rest : TRUE
             r == CreateOne(acc.fs, p)
             nxt == Result(r.fs, acc.out \cup r.out, r.exc,
                           acc.created \cup r.created)
         IN  IF r.exc # "none" THEN nxt ELSE CreateLoop(nxt, rest \ {p})

CreateSymlinksBody(f, fl) == CreateLoop(Result(f, {}, "none", {}), fl)

(***************************************************************************)
(* remove_symlinks (not decorated)                                         *)
(***************************************************************************)
RECURSIVE RemoveLoop(_, _)
RemoveLoop(f, rest) ==
    IF rest = {}
    THEN f
    ELSE LET p == CHOOSE x \in rest : TRUE
         IN  RemoveLoop(IF IsSymlink(f, p) THEN Unlink(f, p) ELSE f, rest \ {p})

RemoveSymlinksBody(f, fl) ==
    Result(RemoveLoop(f, fl), {Msg("done", <<>>)}, "none", {})

(***************************************************************************)
(* Sequential calls on one handler                                         *)
(***************************************************************************)
Record(op, arg, r) ==
    /\ fs' = r.fs
    /\ out' = r.out
    /\ exc' = r.exc
    /\ created' = r.created
    /\ prevCreated' = created
    /\ fsBefore' = fs
    /\ lastOp' = op
    /\ lastArg' = arg
    /\ prevOp' = lastOp
    /\ UNCHANGED <<guardFiles, files, fs0>>
    /\ UNCHANGED concVars

check_symlinks ==
    Record("check_symlinks", <<>>,
           CheckCwd(fs, guardFiles, 1, 1, CheckSymlinksBody(fs, files)))

create_symlinks ==
    Record("create_symlinks", <<>>,
           CheckCwd(fs, guardFiles, 1, 1, CreateSymlinksBody(fs, files)))

remove_symlinks ==
    Record("remove_symlinks", <<>>, RemoveSymlinksBody(fs, files))

\* handler.add_symlink(file): check_cwd receives (self, file)
add_symlink ==
    \E n \in Names :
        Record("add_symlink", <<n>>,
               CheckCwd(fs, guardFiles, 2, 2, Result(fs, {}, "none", {})))

\* handler.rm_symlink(link): check_cwd receives (self, link)
rm_symlink ==
    \E n \in Names :
        Record("rm_symlink", <<n>>,
               CheckCwd(fs, guardFiles, 2, 2, Result(fs, {}, "none", {})))

\* a new command invocation: the module is imported (the decorator lists the
\* cwd) and a SymlinkHandler is constructed (__init__ lists the cwd)
NewProcess ==
    /\ guardFiles' = Iterdir(fs, Cwd)
    /\ files' = Iterdir(fs, Cwd)
    /\ \/ guardFiles' # guardFiles
       \/ files' # files
    /\ UNCHANGED <<fs, fs0>>
    /\ UNCHANGED seqVars
    /\ UNCHANGED concVars

\* the filesystems the tool may be started on
InitFs ==
    {[p \in AllPaths |-> IF SubSeq(p, 1, 2) = Cwd THEN r[Basename(p)]
                                                  ELSE h[Basename(p)]] :
        r \in {x \in [Names -> UNION {RootEntries(n) : n \in Names}] :
                    \A n \in Names : x[n] \in RootEntries(n)},
        h \in {x \in [Names -> UNION {HomeEntries(n) : n \in Names}] :
                    \A n \in Names : x[n] \in HomeEntries(n)}}

Init ==
    /\ fs \in InitFs
    /\ fs0 = fs
    /\ fsBefore = fs
    /\ guardFiles = Iterdir(fs, Cwd)
    /\ files = Iterdir(fs, Cwd)
    /\ out = {}
    /\ exc = "none"
    /\ lastOp = "none"
    /\ lastArg = <<>>
    /\ prevOp = "none"
    /\ created = {}
    /\ prevCreated = {}
    /\ pc = [p \in Procs |-> "idle"]
    /\ todo = [p \in Procs |-> {}]
    /\ pout = [p \in Procs |-> {}]
    /\ pmade = [p \in Procs |-> {}]

Next ==
    \/ check_symlinks
    \/ create_symlinks
    \/ remove_symlinks
    \/ add_symlink
    \/ rm_symlink
    \/ NewProcess

Spec == Init /\ [][Next]_vars

(***************************************************************************)
(* Two processes running create_symlinks against the same directories.     *)
(* Each iteration of the loop makes one symlink system call, which is      *)
(* atomic; the processes interleave between iterations.  Each process      *)
(* visits self.files in its own order.                                     *)
(***************************************************************************)
\* check_cwd(self): the guard, then the call of create_symlinks
Start(p) ==
    /\ pc[p] = "idle"
    /\ IF GuardPasses(guardFiles)
       THEN /\ pc' = [pc EXCEPT ![p] = "loop"]
            /\ todo' = [todo EXCEPT ![p] = files]
            /\ pout' = pout
       ELSE /\ pc' = [pc EXCEPT ![p] = "done"]
            /\ todo' = todo
            /\ pout' = [pout EXCEPT ![p] = CheckCwd(fs, guardFiles, 1, 1,
                                                     Result(fs, {}, "none", {})).out]
    /\ UNCHANGED <<fs, guardFiles, files, fs0, pmade>>
    /\ UNCHANGED seqVars

\* one iteration of the loop of process p
Step(p) ==
    /\ pc[p] = "loop"
    /\ \E f \in todo[p] :
          LET r == CreateOne(fs, f)
          IN  /\ fs' = r.fs
              /\ pout' = [pout EXCEPT ![p] = @ \cup r.out]
              /\ pmade' = [pmade EXCEPT ![p] = @ \cup r.created]
              /\ todo' = [todo EXCEPT ![p] = @ \ {f}]
              /\ pc' = [pc EXCEPT ![p] = IF r.exc # "none" THEN "crashed"
                                                           ELSE "loop"]
    /\ UNCHANGED <<guardFiles, files, fs0>>
    /\ UNCHANGED seqVars

\* the loop is over: print "done"
Finish(p) ==
    /\ pc[p] = "loop"
    /\ todo[p] = {}
    /\ pout' = [pout EXCEPT ![p] = @ \cup {Msg("done", <<>>)}]
    /\ pc' = [pc EXCEPT ![p] = "done"]
    /\ UNCHANGED <<fs, guardFiles, files, fs0, todo, pmade>>
    /\ UNCHANGED seqVars

NextConc ==
    \/ \E p \in Procs : Start(p)
    \/ \E p \in Procs : Step(p)
    \/ \E p \in Procs : Finish(p)

SpecConc == Init /\ [][NextConc]_vars

(***************************************************************************)
(* Vocabulary of the specification                                         *)
(***************************************************************************)
\* the tracked file called n and its destination path
Tracked(n) == Cwd \o <<n>>

Dest(n) == HomeDir \o <<n>>

\* where a symlink placed in directory dir with target t points
Resolve(dir, t) == IF IsAbs(t) THEN t ELSE dir \o t

\* link state of the tracked file n in filesystem f
LinkState(f, n) ==
    LET e == f[Dest(n)]
    IN  IF e.kind = "none" THEN "Unlinked"
        ELSE IF e.kind = "symlink" /\ Resolve(HomeDir, e.target) = Tracked(n)
             THEN "Linked"
             ELSE "Conflict"

\* a marker file exists at the dotfiles root in filesystem f
MarkerAt(f) == f[MarkerPath].kind # "none"

\* the names of the files tracked in filesystem f
TrackedNames(f) == {n \in Names : n # "tuckr.conf" /\ f[Tracked(n)].kind # "none"}

\* the symbolic links under the destination root, with their targets
DestLinks(f) == {<<Dest(n), f[Dest(n)].target>> :
                    n \in {m \in Names : f[Dest(m)].kind = "symlink"}}

GuardError == Msg("Error: not a dotfile directory", <<>>)

Mutating == {"create_symlinks", "remove_symlinks", "add_symlink", "rm_symlink"}

TypeOK ==
    /\ DOMAIN fs = AllPaths
    /\ \A p \in AllPaths : fs[p].kind \in {"none", "file", "symlink"}
    /\ files \subseteq AllPaths
    /\ guardFiles \subseteq AllPaths

(***************************************************************************)
(* Claims                                                                  *)
(***************************************************************************)
\* C1: a mutating operation called while no tuckr.conf exists at the dotfiles
\* root changes nothing in the filesystem and reports the
\* not-a-dotfiles-directory error.
C1_GuardEnforcement ==
    (lastOp \in Mutating /\ ~MarkerAt(fsBefore))
        => (fs = fsBefore /\ exc = "none" /\ GuardError \in out)

\* C2: every destination path that held a regular file before the calls still
\* holds it, unchanged; create_symlinks run in a dotfiles root reports each
\* tracked file whose destination holds a regular file as skipped and runs
\* to its end.
C2_ConflictPreservation ==
    /\ \A n \in Names :
          fs0[Dest(n)].kind = "file" => fs[Dest(n)] = fs0[Dest(n)]
    /\ (lastOp = "create_symlinks" /\ MarkerAt(fsBefore))
          => /\ exc = "none"
             /\ Msg("done", <<>>) \in out
             /\ \A n \in TrackedNames(fsBefore) :
                   fsBefore[Dest(n)].kind = "file"
                       => Msg("Skipping", <<n>>) \in out

\* the first half of C2 alone: no call ever changes a regular file at a
\* destination path
RegularFilesPreserved ==
    \A n \in Names : fs0[Dest(n)].kind = "file" => fs[Dest(n)] = fs0[Dest(n)]

\* C3: create_symlinks run in a dotfiles root creates, for every tracked file
\* whose destination does not exist, a symlink at the destination whose
\* target is the absolute path of the tracked file, and a following
\* check_symlinks reports the file as linked.
C3_LinkAllCreatesAbsoluteLinks ==
    /\ (lastOp = "create_symlinks" /\ MarkerAt(fsBefore))
          => \A n \in TrackedNames(fsBefore) :
                fsBefore[Dest(n)].kind = "none"
                    => /\ fs[Dest(n)] = Symlink(Tracked(n))
                       /\ LinkState(fs, n) = "Linked"
    /\ (lastOp = "check_symlinks" /\ prevOp = "create_symlinks" /\ MarkerAt(fsBefore))
          => \A n \in TrackedNames(fsBefore) :
                Dest(n) \in prevCreated => Msg("Symlinked", Tracked(n)) \in out

\* C4: remove_symlinks removes the link at every destination that is Linked
\* and leaves Conflict and Unlinked destinations alone; right after
\* create_symlinks it leaves no destination of a tracked file a symlink.
C4_UnlinkAllRemovesLinked ==
    lastOp = "remove_symlinks"
        => /\ \A n \in TrackedNames(fsBefore) :
                 IF LinkState(fsBefore, n) = "Linked"
                 THEN fs[Dest(n)].kind = "none"
                 ELSE fs[Dest(n)] = fsBefore[Dest(n)]
           /\ prevOp = "create_symlinks"
                 => \A n \in TrackedNames(fsBefore) :
                       Dest(n) \in prevCreated => fs[Dest(n)].kind # "symlink"

\* C5: add_symlink of a tracked file whose destination does not exist returns
\* normally and leaves a symlink to the tracked file at the destination;
\* with the destination already linked it reports AlreadyLinked, with the
\* destination occupied it reports Conflict, in both cases without raising.
C5_AddOne ==
    (lastOp = "add_symlink" /\ MarkerAt(fsBefore)
        /\ Basename(lastArg) \in TrackedNames(fsBefore))
        => LET n == Basename(lastArg)
           IN  /\ exc = "none"
               /\ LinkState(fsBefore, n) = "Unlinked"
                     => fs[Dest(n)] = Symlink(Tracked(n))
               /\ LinkState(fsBefore, n) = "Linked"
                     => Msg("AlreadyLinked", <<n>>) \in out /\ fs = fsBefore
               /\ LinkState(fsBefore, n) = "Conflict"
                     => Msg("Conflict", <<n>>) \in out /\ fs = fsBefore

\* C6: rm_symlink on a path whose destination is not a symlink reports
\* NotLinked and removes nothing.
C6_RemoveOneNotLinked ==
    (lastOp = "rm_symlink" /\ MarkerAt(fsBefore)
        /\ fsBefore[Dest(Basename(lastArg))].kind # "symlink")
        => /\ Msg("NotLinked", lastArg) \in out
           /\ exc = "none"
           /\ fs = fsBefore

\* C7: a create_symlinks run right after a create_symlinks run leaves the
\* destination links as the first run left them, creates no link, raises
\* nothing, and says of a file the first run linked only that it skips it.
C7_LinkAllIdempotent ==
    (lastOp = "create_symlinks" /\ prevOp = "create_symlinks")
        => /\ DestLinks(fs) = DestLinks(fsBefore)
           /\ fs = fsBefore
           /\ created = {}
           /\ exc = "none"
           /\ \A n \in Names : \A m \in out :
                 (Dest(n) \in prevCreated /\ m.file \in {<<n>>, Tracked(n), Dest(n)})
                     => m.msg = "Skipping"

\* witness of C7: the second of two runs, the first of which created a link
C7_Witness ==
    /\ lastOp = "create_symlinks"
    /\ prevOp = "create_symlinks"
    /\ prevCreated # {}
    /\ \E n \in Names : Msg("Skipping", <<n>>) \in out /\ Dest(n) \in prevCreated

\* C8: tuckr.conf is never linked at the destination, never removed or
\* unlinked, and check_symlinks does not report it as a tracked file.
C8_ConfigExcluded ==
    /\ fs[Dest("tuckr.conf")] = fs0[Dest("tuckr.conf")]
    /\ fs[MarkerPath] = fs0[MarkerPath]
    /\ lastOp = "check_symlinks"
          => \A m \in out : m.file # MarkerPath

\* the part of C8 about link creation alone: no call creates anything at the
\* destination path of tuckr.conf
ConfigNeverLinked == fs[Dest("tuckr.conf")] = fs0[Dest("tuckr.conf")]

\* the destination links one create_symlinks run makes of the initial
\* filesystem
SingleRunLinks ==
    DestLinks(CheckCwd(fs0, guardFiles, 1, 1, CreateSymlinksBody(fs0, files)).fs)

\* process p has been through the loop iteration of file f
Visited(p, f) ==
    /\ GuardPasses(guardFiles)
    /\ pc[p] \in {"loop", "done"}
    /\ f \in files
    /\ f \notin todo[p]

\* C9: of two concurrent create_symlinks runs neither crashes; a creation
\* that finds the path taken is reported as skipped and the run goes on;
\* a run that is not over can always take its next step; when both are over
\* the destination links are those of a single run.
C9_ConcurrentLinkAll ==
    /\ \A p \in Procs : pc[p] \in {"idle", "loop", "done"}
    /\ \A p \in Procs :
          pc[p] # "done" => ENABLED (Start(p) \/ Step(p) \/ Finish(p))
    /\ \A p \in Procs : \A f \in files :
          (Visited(p, f) /\ ~HasConfSubstring(Basename(f))
             /\ Dest(Basename(f)) \notin pmade[p])
              => Msg("Skipping", <<Basename(f)>>) \in pout[p]
    /\ (\A p \in Procs : pc[p] = "done") => DestLinks(fs) = SingleRunLinks

\* witness of C9: both runs are over, and one of them was refused a link the
\* other had created
C9_Witness ==
    /\ \A p \in Procs : pc[p] = "done"
    /\ \E p \in Procs : \E q \in Procs \ {p} : \E n \in Names :
          /\ Dest(n) \in pmade[q]
          /\ Msg("Skipping", <<n>>) \in pout[p]
          /\ pmade[p] # {}

\* C10: no call changes an entry of the dotfiles root.
C10_RootNeverMutated ==
    \A n \in Names : fs[Tracked(n)] = fs0[Tracked(n)]

=============================================================================
